---- MODULE Spec2Model ----
(***************************************************************************)
(* Source synchronisation engine of the price-comparison server.           *)
(*                                                                         *)
(* The catalog (Product, ProductListing, PriceHistory, Platform tables)    *)
(* and the sync orchestrator search_and_sync_products of                   *)
(* server/app/services/scraping_service.py.  A row's primary key is its    *)
(* position in the table's sequence.  Every database round trip of the     *)
(* orchestrator (a query, or the statements flushed by one db.commit())    *)
(* is one step, so that calls running in different requests interleave     *)
(* exactly at the points where the code talks to the database.             *)
(***************************************************************************)
EXTENDS Integers, Sequences, FiniteSets, TLC

\* ---------------------------------------------------------------- bounds
MaxTime == 2          \* the clock stops after this many ticks
MaxFetched == 3       \* records the scrapers return in one behaviour
MaxResults == 1       \* records one scraper returns for one search

\* ------------------------------------------------------------- constants
Window == 1           \* timedelta(hours=24), in clock ticks of 24 hours

Procs == {1, 2}       \* request handlers (one db Session each)

Sources == {"Amazon", "Flipkart"}

NoneStr == "None"     \* Python None in a string-typed field
NoneNum == -1         \* Python None in a numeric field
NoRow == 0            \* Python None where a row is expected (.first())

\* Product names and queries, as tuples of characters.
Names == {<<"b", "A">>, <<"b">>}
Queries == {<<"a">>}

\* The words of a URL the orchestrator looks for (lower-cased).
AmazonUrls == {{"amazon"}}
FlipkartUrls == {{"flipkart"}}

ProductIds == {"X"}
Prices == {5}

\* ScrapedProductData, restricted to the fields the orchestrator reads.
\* search_products only appends a record that has a name.
RecordsOf(urls) ==
    [name : Names,
     platform_url : urls,
     platform_product_id : ProductIds \cup {NoneStr},
     current_price : Prices]

AmazonRecords == RecordsOf(AmazonUrls)
FlipkartRecords == RecordsOf(FlipkartUrls)

\* Records as the search pages can yield them: the URL of an Amazon item
\* carries the words of its title ("/Flipkart-SmartBuy-.../dp/..."), and
\* current_price stays None when the container shows no price.
SlugUrls == {{"amazon"}, {"amazon", "flipkart"}}
ScrapedAmazon ==
    [name : {<<"b", "A">>},
     platform_url : SlugUrls,
     platform_product_id : ProductIds,
     current_price : Prices \cup {NoneNum}]
ScrapedFlipkart ==
    [name : {<<"b", "A">>},
     platform_url : FlipkartUrls,
     platform_product_id : ProductIds,
     current_price : Prices \cup {NoneNum}]

RECURSIVE SeqsUpTo(_, _)
SeqsUpTo(S, n) ==
    IF n = 0 THEN {<<>>}
    ELSE LET shorter == SeqsUpTo(S, n - 1)
         IN  shorter \cup {Append(s, x) : s \in shorter, x \in S}

\* What one scraper pipeline can do: raise, or return a list of records.
ScraperOutcomes(records) ==
    {[raised |-> FALSE, records |-> s] : s \in SeqsUpTo(records, MaxResults)}
        \cup {[raised |-> TRUE, records |-> <<>>]}

VARIABLES
    products,           \* products table: seq of [name]
    listings,           \* product_listings table
    history,            \* price_history table
    platforms,          \* platforms table: seq of [name]
    now,                \* datetime.utcnow()
    fetched,            \* records returned by the scrapers so far
    pc,                 \* position of each call
    query,
    existing_products,  \* ids of the products matching the query at line 31
    needs,              \* sources with needs_<source> true
    invoked,            \* sources whose scraper was entered
    errors,             \* sources whose pipeline error was logged
    amazon_results,
    flipkart_results,
    scraped_data,
    idx,                \* position of `item` in scraped_data
    platform,           \* id of the resolved platform row
    existing_listing,
    product,
    listing,            \* the listing row as last loaded: [id, price]
    new_listings,
    result,             \* the returned products (ids)
    rank_input,         \* the listings handed to rank_listings
    scored,             \* the list rank_listings returns
    match_input,        \* the arguments of get_best_match
    best_listing,       \* the position of the listing it returns (NoRow: None)
    scope,              \* where the with-block of a scraper stands
    use_selenium,
    clock,              \* time.time(), in seconds
    last_request_time,
    driver,
    session,
    browser,            \* the Chrome process behind driver
    connection,         \* the connection pool behind session
    fpc,                \* position inside _get_page_content
    fetches,            \* calls of _get_page_content so far
    attempts,           \* the requests of the current call: [time, outcome]
    prev_first,         \* when the previous call issued its first request
    content,            \* what the last call returned
    raised,             \* the with-block raised
    propagated,         \* the with statement raised to its caller
    search_input,       \* the page search_products fetched, and max_results
    results,            \* how search_products ended, and the list it returned
    users,              \* users table: seq of [is_active, is_deleted]
    user_auth,          \* user_auth table: seq of [user_id, email, password, is_deleted]
    refresh_tokens,     \* refresh_tokens table: set of rows (rows are deleted)
    issued,             \* refresh-token strings generated so far
    today,              \* datetime.utcnow() of the auth service, in days
    apc,                \* position of each auth request
    areq,               \* the body of each auth request
    aloc,               \* the rows each auth request has loaded
    resp,               \* the response of each auth request
    saved_search,       \* saved_search table: set of rows (rows are deleted)
    search_seq,         \* the id sequence of saved_search
    reply               \* the last response of the saved-search endpoints

dbvars == <<products, listings, history, platforms>>
locals == <<query, existing_products, needs, invoked, errors, amazon_results,
            flipkart_results, scraped_data, idx, platform, existing_listing,
            product, listing, new_listings, result>>
syncvars == <<products, listings, history, platforms, now, fetched, pc, query,
              existing_products, needs, invoked, errors, amazon_results,
              flipkart_results, scraped_data, idx, platform, existing_listing,
              product, listing, new_listings, result>>
rankvars == <<rank_input, scored>>
matchvars == <<match_input, best_listing>>
scrapervars == <<scope, use_selenium, clock, last_request_time, driver, session,
                 browser, connection, fpc, fetches, attempts, prev_first,
                 content, raised, propagated>>
parsevars == <<search_input, results>>
authvars == <<users, user_auth, refresh_tokens, issued, today, apc, areq, aloc,
              resp>>
savedvars == <<saved_search, search_seq, reply>>
\* What the synchronisation never touches.
others == <<rankvars, matchvars, scrapervars, parsevars, authvars, savedvars>>
vars == <<syncvars, others>>

\* ------------------------------------------------------------- helpers
Lower(c) == IF c = "A" THEN "a" ELSE IF c = "B" THEN "b" ELSE c

\* Product.name.ilike("%" + q + "%")
ILike(name, q) ==
    \E off \in 0..(Len(name) - Len(q)) :
        \A i \in 1..Len(q) : Lower(name[off + i]) = Lower(q[i])

\* Python truthiness of an Optional[Decimal]
Truthy(x) == x # NoneNum /\ x # 0

\* x or y
Or(x, y) == IF Truthy(x) THEN x ELSE y

\* db.query(Platform).filter(Platform.name == n).first(): the query has no
\* ORDER BY, so with several rows of that name any of them may come back.
PlatformRows(n) ==
    LET rows == {i \in 1..Len(platforms) : platforms[i].name = n}
    IN  IF rows = {} THEN {NoRow} ELSE rows

\* Lines 104-106: the platform is read off the record's URL.
PlatformName(item) ==
    LET first == IF "amazon" \in item.platform_url THEN "Amazon" ELSE "Flipkart"
    IN  IF "flipkart" \in item.platform_url THEN "Flipkart" ELSE first

\* ListingRows with the id comparison inverted (!= for ==).
ListingRowsOtherId(ppid, plat) ==
    LET rows == {i \in 1..Len(listings) :
                    /\ listings[i].platform_product_id # ppid
                    /\ listings[i].platform_id = plat}
    IN  IF rows = {} THEN {NoRow} ELSE rows

\* ListingRows with SQL's "= NULL", which no row satisfies, for a None id.
ListingRowsNullUnmatched(ppid, plat) ==
    LET rows == {i \in 1..Len(listings) :
                    /\ ppid # NoneStr
                    /\ listings[i].platform_product_id = ppid
                    /\ listings[i].platform_id = plat}
    IN  IF rows = {} THEN {NoRow} ELSE rows

\* Lines 123-126: .first() of the listings with the record's
\* platform_product_id on the platform; a None id compiles to IS NULL and so
\* matches the rows whose id is NULL.
ListingRows(ppid, plat) ==
    LET rows == {i \in 1..Len(listings) :
                    /\ listings[i].platform_product_id = ppid
                    /\ listings[i].platform_id = plat}
    IN  IF rows = {} THEN {NoRow} ELSE rows

\* FreshListings with the cutoff itself excluded (> for >=).
FreshListingsStrict(existing) ==
    LET cutoff_time == now - Window
    IN  {i \in 1..Len(listings) :
            /\ listings[i].product_id \in existing
            /\ listings[i].last_scraped_at > cutoff_time}

\* Lines 43-57: the listings of the matching products scraped since cutoff.
FreshListings(existing) ==
    LET cutoff_time == now - Window
    IN  {i \in 1..Len(listings) :
            /\ listings[i].product_id \in existing
            /\ listings[i].last_scraped_at >= cutoff_time}

Item(p) == scraped_data[p][idx[p]]

\* The scraper that returned Item(p): lines 79 and 88 put the Amazon
\* results first.
ScraperOf(p) ==
    IF idx[p] <= Len(amazon_results[p]) THEN "Amazon" ELSE "Flipkart"

TypeOK ==
    /\ now \in 0..MaxTime
    /\ fetched \in 0..MaxFetched
    /\ \A p \in Procs : needs[p] \subseteq Sources

SyncInit ==
    /\ products = <<>>
    /\ listings = <<>>
    /\ history = <<>>
    /\ platforms = <<>>
    /\ now = 0
    /\ fetched = 0
    /\ pc = [p \in Procs |-> "idle"]
    /\ query = [p \in Procs |-> <<"a">>]
    /\ existing_products = [p \in Procs |-> {}]
    /\ needs = [p \in Procs |-> {}]
    /\ invoked = [p \in Procs |-> {}]
    /\ errors = [p \in Procs |-> {}]
    /\ amazon_results = [p \in Procs |-> <<>>]
    /\ flipkart_results = [p \in Procs |-> <<>>]
    /\ scraped_data = [p \in Procs |-> <<>>]
    /\ idx = [p \in Procs |-> 0]
    /\ platform = [p \in Procs |-> NoRow]
    /\ existing_listing = [p \in Procs |-> NoRow]
    /\ product = [p \in Procs |-> NoRow]
    /\ listing = [p \in Procs |-> [id |-> NoRow, price |-> 0]]
    /\ new_listings = [p \in Procs |-> {}]
    /\ result = [p \in Procs |-> {}]

\* No ranking was asked for.
RankIdle ==
    /\ rank_input = <<>>
    /\ scored = <<>>

\* No match was asked for.
MatchIdle ==
    /\ match_input = [listings |-> <<>>, search_query |-> <<>>]
    /\ best_listing = NoRow

\* BaseScraper.__init__, for the Selenium scrapers.  time.time() is further
\* from last_request_time = 0.0 than any rate limit.
rate_limit_seconds == 3
BaseScraperInit(selenium) ==
    /\ scope = "created"
    /\ use_selenium = selenium
    /\ clock = rate_limit_seconds
    /\ last_request_time = 0
    /\ driver = NoneStr
    /\ session = NoneStr
    /\ browser = "none"
    /\ connection = "none"
    /\ fpc = "idle"
    /\ fetches = 0
    /\ attempts = <<>>
    /\ prev_first = NoneNum
    /\ content = NoneStr
    /\ raised = FALSE
    /\ propagated = FALSE

\* AmazonScraper() and FlipkartScraper()
ScraperCreated == BaseScraperInit(TRUE)

\* No page was parsed.
ParseIdle ==
    /\ search_input = [html_content |-> NoneStr, product_containers |-> <<>>,
                       max_results |-> 0]
    /\ results = [ended |-> "pending", records |-> <<>>]

\* An auth request not yet made, and the locals and response of one.
NoRequest == [op |-> "none", email |-> NoneStr, password |-> NoneStr,
              refresh_token |-> NoneNum]
NoTokenRow == [user_id |-> NoRow, token |-> NoneNum, expires_at |-> NoneNum,
               is_deleted |-> FALSE]
NoLocals == [user_id |-> NoRow, row |-> NoTokenRow]
NoResponse == [status |-> 0, access_token |-> NoRow, refresh_token |-> NoneNum]

\* Empty users, user_auth and refresh_tokens tables, no request.
AuthInit ==
    /\ users = <<>>
    /\ user_auth = <<>>
    /\ refresh_tokens = {}
    /\ issued = 0
    /\ today = 0
    /\ apc = [p \in Procs |-> "idle"]
    /\ areq = [p \in Procs |-> NoRequest]
    /\ aloc = [p \in Procs |-> NoLocals]
    /\ resp = [p \in Procs |-> NoResponse]

\* Empty saved_search table, no request.
SavedInit ==
    /\ saved_search = {}
    /\ search_seq = 0
    /\ reply = [op |-> "none", user_id |-> NoRow, search_id |-> NoRow,
                status |-> 0, items |-> {}]

Init ==
    /\ SyncInit
    /\ RankIdle
    /\ MatchIdle
    /\ ScraperCreated
    /\ ParseIdle
    /\ AuthInit
    /\ SavedInit

Resting == {"idle", "AllFresh", "Fallback", "Return", "failed"}

\* Time passes: one tick is a whole window, a call takes seconds, so the
\* clock is advanced between calls.
Tick ==
    /\ now < MaxTime
    /\ \A p \in Procs : pc[p] \in Resting
    /\ now' = now + 1
    /\ UNCHANGED <<dbvars, fetched, pc, locals>>
    /\ UNCHANGED others

\* CachedProducts taking the products of all listings, fresh or not.
CachedProductsOfAll(fresh_listings) ==
    {listings[i].product_id : i \in 1..Len(listings)}

\* Line 66: the products of the fresh listings.
CachedProducts(fresh_listings) ==
    {listings[i].product_id : i \in fresh_listings}

\* Lines 31-67 (CheckCache): the matching products, the per-source counts of
\* their fresh listings, and the early return when no source needs a fetch.
Start(p) ==
    /\ pc[p] \in Resting
    /\ \E q \in Queries :
      \E amazon_platform \in PlatformRows("Amazon"),
         flipkart_platform \in PlatformRows("Flipkart") :
        LET existing == {i \in 1..Len(products) : ILike(products[i].name, q)}
            fresh_listings == FreshListings(existing)
            amazon_hit(i) ==
                amazon_platform # NoRow /\ listings[i].platform_id = amazon_platform
            flipkart_hit(i) ==
                /\ ~amazon_hit(i)
                /\ flipkart_platform # NoRow
                /\ listings[i].platform_id = flipkart_platform
            amazon_fresh_count ==
                IF existing = {} THEN 0
                ELSE Cardinality({i \in fresh_listings : amazon_hit(i)})
            flipkart_fresh_count ==
                IF existing = {} THEN 0
                ELSE Cardinality({i \in fresh_listings : flipkart_hit(i)})
            needs_amazon == amazon_fresh_count = 0
            needs_flipkart == flipkart_fresh_count = 0
            all_fresh == ~needs_amazon /\ ~needs_flipkart
        IN  /\ query' = [query EXCEPT ![p] = q]
            /\ existing_products' = [existing_products EXCEPT ![p] = existing]
            /\ needs' = [needs EXCEPT ![p] =
                    (IF needs_amazon THEN {"Amazon"} ELSE {})
                        \cup (IF needs_flipkart THEN {"Flipkart"} ELSE {})]
            /\ result' = [result EXCEPT ![p] =
                    IF all_fresh THEN CachedProducts(fresh_listings) ELSE {}]
            /\ pc' = [pc EXCEPT ![p] = IF all_fresh THEN "AllFresh" ELSE "dispatch"]
    /\ invoked' = [invoked EXCEPT ![p] = {}]
    /\ errors' = [errors EXCEPT ![p] = {}]
    /\ amazon_results' = [amazon_results EXCEPT ![p] = <<>>]
    /\ flipkart_results' = [flipkart_results EXCEPT ![p] = <<>>]
    /\ scraped_data' = [scraped_data EXCEPT ![p] = <<>>]
    /\ idx' = [idx EXCEPT ![p] = 0]
    /\ platform' = [platform EXCEPT ![p] = NoRow]
    /\ existing_listing' = [existing_listing EXCEPT ![p] = NoRow]
    /\ product' = [product EXCEPT ![p] = NoRow]
    /\ listing' = [listing EXCEPT ![p] = [id |-> NoRow, price |-> 0]]
    /\ new_listings' = [new_listings EXCEPT ![p] = {}]
    /\ UNCHANGED <<dbvars, now, fetched>>
    /\ UNCHANGED others

\* Lines 72-97 (Dispatch): each needed source's scraper runs inside its own
\* try/except; with no record at all the call falls back to the stored
\* products.  The scrapers return lists over amazon_records and
\* flipkart_records.
DispatchFrom(p, amazon_records, flipkart_records) ==
    /\ pc[p] = "dispatch"
    /\ \E a \in ScraperOutcomes(amazon_records), f \in ScraperOutcomes(flipkart_records) :
        LET amz == IF "Amazon" \in needs[p] THEN a.records ELSE <<>>
            fk == IF "Flipkart" \in needs[p] THEN f.records ELSE <<>>
            data == amz \o fk
        IN  /\ fetched + Len(data) <= MaxFetched
            /\ fetched' = fetched + Len(data)
            /\ "Amazon" \notin needs[p] => a = [raised |-> FALSE, records |-> <<>>]
            /\ "Flipkart" \notin needs[p] => f = [raised |-> FALSE, records |-> <<>>]
            /\ invoked' = [invoked EXCEPT ![p] = needs[p]]
            /\ errors' = [errors EXCEPT ![p] =
                    (IF "Amazon" \in needs[p] /\ a.raised THEN {"Amazon"} ELSE {})
                        \cup (IF "Flipkart" \in needs[p] /\ f.raised THEN {"Flipkart"} ELSE {})]
            /\ amazon_results' = [amazon_results EXCEPT ![p] = amz]
            /\ flipkart_results' = [flipkart_results EXCEPT ![p] = fk]
            /\ scraped_data' = [scraped_data EXCEPT ![p] = data]
            /\ IF data = <<>>
               THEN /\ result' = [result EXCEPT ![p] = existing_products[p]]
                    /\ pc' = [pc EXCEPT ![p] = "Fallback"]
                    /\ idx' = idx
               ELSE /\ result' = result
                    /\ pc' = [pc EXCEPT ![p] = "platform"]
                    /\ idx' = [idx EXCEPT ![p] = 1]
    /\ UNCHANGED <<dbvars, now, query, existing_products, needs, platform,
                   existing_listing, product, listing, new_listings>>
    /\ UNCHANGED others

\* Dispatch without the try/except around a scraper: the error leaves the call.
DispatchNoCatch(p) ==
    /\ pc[p] = "dispatch"
    /\ \E a \in ScraperOutcomes(AmazonRecords), f \in ScraperOutcomes(FlipkartRecords) :
        LET amz == IF "Amazon" \in needs[p] THEN a.records ELSE <<>>
            fk == IF "Flipkart" \in needs[p] THEN f.records ELSE <<>>
            data == amz \o fk
        IN  /\ fetched + Len(data) <= MaxFetched
            /\ fetched' = fetched + Len(data)
            /\ "Amazon" \notin needs[p] => a = [raised |-> FALSE, records |-> <<>>]
            /\ "Flipkart" \notin needs[p] => f = [raised |-> FALSE, records |-> <<>>]
            /\ invoked' = [invoked EXCEPT ![p] = needs[p]]
            /\ errors' = [errors EXCEPT ![p] =
                    (IF "Amazon" \in needs[p] /\ a.raised THEN {"Amazon"} ELSE {})
                        \cup (IF "Flipkart" \in needs[p] /\ f.raised THEN {"Flipkart"} ELSE {})]
            /\ amazon_results' = [amazon_results EXCEPT ![p] = amz]
            /\ flipkart_results' = [flipkart_results EXCEPT ![p] = fk]
            /\ scraped_data' = [scraped_data EXCEPT ![p] = data]
            /\ IF data = <<>>
               THEN /\ result' = [result EXCEPT ![p] = existing_products[p]]
                    /\ pc' = [pc EXCEPT ![p] = "Fallback"]
                    /\ idx' = idx
               ELSE /\ result' = result
                    /\ pc' = [pc EXCEPT ![p] =
                            IF ("Amazon" \in needs[p] /\ a.raised)
                                   \/ ("Flipkart" \in needs[p] /\ f.raised)
                            THEN "failed" ELSE "platform"]
                    /\ idx' = [idx EXCEPT ![p] = 1]
    /\ UNCHANGED <<dbvars, now, query, existing_products, needs, platform,
                   existing_listing, product, listing, new_listings>>
    /\ UNCHANGED others

\* Dispatch returning [] when nothing was scraped, whatever is stored.
DispatchFallbackEmpty(p) ==
    /\ pc[p] = "dispatch"
    /\ \E a \in ScraperOutcomes(AmazonRecords), f \in ScraperOutcomes(FlipkartRecords) :
        LET amz == IF "Amazon" \in needs[p] THEN a.records ELSE <<>>
            fk == IF "Flipkart" \in needs[p] THEN f.records ELSE <<>>
            data == amz \o fk
        IN  /\ fetched + Len(data) <= MaxFetched
            /\ fetched' = fetched + Len(data)
            /\ "Amazon" \notin needs[p] => a = [raised |-> FALSE, records |-> <<>>]
            /\ "Flipkart" \notin needs[p] => f = [raised |-> FALSE, records |-> <<>>]
            /\ invoked' = [invoked EXCEPT ![p] = needs[p]]
            /\ errors' = [errors EXCEPT ![p] =
                    (IF "Amazon" \in needs[p] /\ a.raised THEN {"Amazon"} ELSE {})
                        \cup (IF "Flipkart" \in needs[p] /\ f.raised THEN {"Flipkart"} ELSE {})]
            /\ amazon_results' = [amazon_results EXCEPT ![p] = amz]
            /\ flipkart_results' = [flipkart_results EXCEPT ![p] = fk]
            /\ scraped_data' = [scraped_data EXCEPT ![p] = data]
            /\ IF data = <<>>
               THEN /\ result' = [result EXCEPT ![p] = {}]
                    /\ pc' = [pc EXCEPT ![p] = "Fallback"]
                    /\ idx' = idx
               ELSE /\ result' = result
                    /\ pc' = [pc EXCEPT ![p] = "platform"]
                    /\ idx' = [idx EXCEPT ![p] = 1]
    /\ UNCHANGED <<dbvars, now, query, existing_products, needs, platform,
                   existing_listing, product, listing, new_listings>>
    /\ UNCHANGED others

\* Dispatch with the scrapers returning records of the usual kind.
Dispatch(p) == DispatchFrom(p, AmazonRecords, FlipkartRecords)

\* Lines 104-109: the platform row is looked up by the name read off the URL.
PlatformQuery(p) ==
    /\ pc[p] = "platform"
    /\ \E row \in PlatformRows(PlatformName(Item(p))) :
           /\ platform' = [platform EXCEPT ![p] = row]
           /\ pc' = [pc EXCEPT ![p] = IF row = NoRow THEN "platform_commit" ELSE "find"]
    /\ UNCHANGED <<dbvars, now, fetched, query, existing_products, needs, invoked,
                   errors, amazon_results, flipkart_results, scraped_data, idx,
                   existing_listing, product, listing, new_listings, result>>
    /\ UNCHANGED others

\* Lines 110-114: a missing platform row is created and committed.
PlatformCommit(p) ==
    /\ pc[p] = "platform_commit"
    /\ platforms' = Append(platforms, [name |-> PlatformName(Item(p))])
    /\ platform' = [platform EXCEPT ![p] = Len(platforms) + 1]
    /\ pc' = [pc EXCEPT ![p] = "find"]
    /\ UNCHANGED <<products, listings, history, now, fetched, query, existing_products,
                   needs, invoked, errors, amazon_results, flipkart_results,
                   scraped_data, idx, existing_listing, product, listing,
                   new_listings, result>>
    /\ UNCHANGED others

\* Lines 123-130: the listing with the record's natural key, and its product.
FindListing(p) ==
    /\ pc[p] = "find"
    /\ \E row \in ListingRows(Item(p).platform_product_id, platform[p]) :
           /\ existing_listing' = [existing_listing EXCEPT ![p] = row]
           /\ product' = [product EXCEPT ![p] =
                   IF row = NoRow THEN NoRow ELSE listings[row].product_id]
           /\ pc' = [pc EXCEPT ![p] = IF row = NoRow THEN "product" ELSE "listing"]
    /\ UNCHANGED <<dbvars, now, fetched, query, existing_products, needs, invoked,
                   errors, amazon_results, flipkart_results, scraped_data, idx,
                   platform, listing, new_listings, result>>
    /\ UNCHANGED others

\* Lines 132-142: without a listing a new product is created and committed.
CreateProduct(p) ==
    /\ pc[p] = "product"
    /\ products' = Append(products,
            [name |-> IF Item(p).name = <<>> THEN <<"?">> ELSE Item(p).name])
    /\ product' = [product EXCEPT ![p] = Len(products) + 1]
    /\ pc' = [pc EXCEPT ![p] = "listing"]
    /\ UNCHANGED <<listings, history, platforms, now, fetched, query,
                   existing_products, needs, invoked, errors, amazon_results,
                   flipkart_results, scraped_data, idx, platform,
                   existing_listing, listing, new_listings, result>>
    /\ UNCHANGED others

\* Lines 147 and 171 (existing listing) or 159 and 171 (new listing).
ListingPrice(item) ==
    LET first == Or(item.current_price, 0)
    IN  Or(item.current_price, first)

\* Lines 144-179: the listing is updated in place or inserted, and committed.
\* scraped_by is no column: it keeps, for the properties, which scraper
\* returned the record last written to the row.
CommitListing(p) ==
    /\ pc[p] = "listing"
    /\ LET item == Item(p)
           el == existing_listing[p]
           id == IF el # NoRow THEN el ELSE Len(listings) + 1
           price == ListingPrice(item)
       IN  /\ listings' =
                IF el # NoRow
                THEN [listings EXCEPT ![el].price = price,
                                      ![el].last_scraped_at = now,
                                      ![el].scraped_by = ScraperOf(p)]
                ELSE Append(listings,
                        [product_id |-> product[p],
                         platform_id |-> platform[p],
                         platform_product_id |-> item.platform_product_id,
                         price |-> price,
                         last_scraped_at |-> now,
                         scraped_by |-> ScraperOf(p)])
           /\ listing' = [listing EXCEPT ![p] = [id |-> id, price |-> price]]
           /\ new_listings' = [new_listings EXCEPT ![p] = @ \cup {id}]
    /\ pc' = [pc EXCEPT ![p] = "history"]
    /\ UNCHANGED <<products, history, platforms, now, fetched, query,
                   existing_products, needs, invoked, errors, amazon_results,
                   flipkart_results, scraped_data, idx, platform,
                   existing_listing, product, result>>
    /\ UNCHANGED others

\* CommitHistory recording a point only for a listing just created.
CommitHistoryNewOnly(p) ==
    /\ pc[p] = "history"
    /\ history' =
            IF existing_listing[p] # NoRow THEN history
            ELSE Append(history,
                    [product_listing_id |-> listing[p].id,
                     price |-> listing[p].price,
                     recorded_at |-> now])
    /\ IF idx[p] < Len(scraped_data[p])
       THEN /\ idx' = [idx EXCEPT ![p] = @ + 1]
            /\ pc' = [pc EXCEPT ![p] = "platform"]
       ELSE /\ idx' = idx
            /\ pc' = [pc EXCEPT ![p] = "return"]
    /\ UNCHANGED <<products, listings, platforms, now, fetched, query,
                   existing_products, needs, invoked, errors, amazon_results,
                   flipkart_results, scraped_data, platform, existing_listing,
                   product, listing, new_listings, result>>
    /\ UNCHANGED others

\* Lines 181-188: one price-history row for the listing just committed; the
\* loop then moves to the next record.
CommitHistory(p) ==
    /\ pc[p] = "history"
    /\ history' = Append(history,
            [product_listing_id |-> listing[p].id,
             price |-> listing[p].price,
             recorded_at |-> now])
    /\ IF idx[p] < Len(scraped_data[p])
       THEN /\ idx' = [idx EXCEPT ![p] = @ + 1]
            /\ pc' = [pc EXCEPT ![p] = "platform"]
       ELSE /\ idx' = idx
            /\ pc' = [pc EXCEPT ![p] = "return"]
    /\ UNCHANGED <<products, listings, platforms, now, fetched, query,
                   existing_products, needs, invoked, errors, amazon_results,
                   flipkart_results, scraped_data, platform, existing_listing,
                   product, listing, new_listings, result>>
    /\ UNCHANGED others

\* Lines 190-198: the products of the new listings, with the products that
\* matched at the start.
Return(p) ==
    /\ pc[p] = "return"
    /\ LET new_products == {listings[l].product_id : l \in new_listings[p]}
       IN  result' = [result EXCEPT ![p] = new_products \cup existing_products[p]]
    /\ pc' = [pc EXCEPT ![p] = "Return"]
    /\ UNCHANGED <<dbvars, now, fetched, query, existing_products, needs, invoked,
                   errors, amazon_results, flipkart_results, scraped_data, idx,
                   platform, existing_listing, product, listing, new_listings>>
    /\ UNCHANGED others

\* A database statement of the reconcile loop raises (lost connection, a
\* value the column rejects): the exception leaves the call, the session's
\* pending work is dropped, what was committed stays.
Fail(p) ==
    /\ pc[p] \in {"platform", "platform_commit", "find", "product", "listing",
                  "history", "return"}
    /\ pc' = [pc EXCEPT ![p] = "failed"]
    /\ UNCHANGED <<dbvars, now, fetched, locals>>
    /\ UNCHANGED others

\* Lines 101-188: the reconcile loop.
Reconcile(p) ==
    \/ PlatformQuery(p)
    \/ PlatformCommit(p)
    \/ FindListing(p)
    \/ CreateProduct(p)
    \/ CommitListing(p)
    \/ CommitHistory(p)
    \/ Return(p)

Step(p) ==
    \/ Dispatch(p)
    \/ Reconcile(p)

\* One call at a time.
SeqProcs == {1}

Next ==
    \/ Tick
    \/ \E p \in SeqProcs : Start(p)
    \/ \E p \in SeqProcs : Step(p)

Spec == Init /\ [][Next]_vars

\* The first call of a request handler.
FirstStart(p) ==
    /\ pc[p] = "idle"
    /\ Start(p)

\* Two requests, one call each, interleaved at their database round trips.
NextConc ==
    \/ Tick
    \/ \E p \in Procs : FirstStart(p)
    \/ \E p \in Procs : Step(p)

SpecConc == Init /\ [][NextConc]_vars

\* One call at a time, any of whose database statements may raise.
NextFail ==
    \/ Tick
    \/ \E p \in SeqProcs : Start(p)
    \/ \E p \in SeqProcs : Step(p)
    \/ \E p \in SeqProcs : Fail(p)

SpecFail == Init /\ [][NextFail]_vars

\* Dispatch with the scrapers returning what the search pages can yield.
DispatchScraped(p) == DispatchFrom(p, ScrapedAmazon, ScrapedFlipkart)

\* Calls one at a time, the scrapers returning ScrapedAmazon and
\* ScrapedFlipkart.
NextScraped ==
    \/ Tick
    \/ \E p \in SeqProcs : Start(p)
    \/ \E p \in SeqProcs : DispatchScraped(p)
    \/ \E p \in SeqProcs : Reconcile(p)

SpecScraped == Init /\ [][NextScraped]_vars

\* ------------------------------------------------------------------ claims

\* The listings that carry a record's natural key: its source (the platform
\* named by its URL) and its source-native id.
KeyRowsIn(ls, pls, item) ==
    {i \in 1..Len(ls) :
        /\ ls[i].platform_product_id = item.platform_product_id
        /\ pls[ls[i].platform_id].name = PlatformName(item)}

HistoryOf(i) == {h \in 1..Len(history) : history[h].product_listing_id = i}

ReconcileSteps == {"platform", "platform_commit", "find", "product", "listing", "history"}

NoDuplicateKey ==
    \A i, j \in 1..Len(listings) :
        (/\ platforms[listings[i].platform_id].name = platforms[listings[j].platform_id].name
         /\ listings[i].platform_product_id = listings[j].platform_product_id)
        => i = j

NoDuplicateProductSource ==
    \A i, j \in 1..Len(listings) :
        (/\ platforms[listings[i].platform_id].name = platforms[listings[j].platform_id].name
         /\ listings[i].product_id = listings[j].product_id)
        => i = j

\* C2: once two concurrent calls have both returned, no two listings share a
\* (source, source-native id) key.
C2_ConcurrentOneListingPerKey ==
    (\A p \in Procs : pc[p] \in Resting) => NoDuplicateKey

\* C3: with calls run one after the other, the catalog never holds two
\* listings of one (product, source) pair nor two listings of one (source,
\* source-native id) pair.
C3_OneListingPerKey ==
    NoDuplicateProductSource /\ NoDuplicateKey

\* Several calls have run: listings on both sources, two of them on the same
\* source under different ids, and one record that was reconciled again.
C3_Witness ==
    /\ Len(listings) >= 2
    /\ Len(history) > Len(listings)
    /\ \E i, j \in 1..Len(listings) :
          /\ i # j
          /\ listings[i].platform_id = listings[j].platform_id

\* C4: when the call is not in the middle of a record (it has returned or was
\* interrupted by a failure), every product in the catalog has its listing
\* and every listing has its history point.
C4_ReconcileAtomic ==
    (\A p \in Procs : pc[p] \in Resting) =>
        /\ \A i \in 1..Len(products) :
              \E l \in 1..Len(listings) : listings[l].product_id = i
        /\ \A l \in 1..Len(listings) : HistoryOf(l) # {}

\* The claim's freshness rule, read off the catalog: some product whose name
\* matches the query has a listing on the source scraped within the window.
SourceFresh(s, q) ==
    \E l \in 1..Len(listings) :
        /\ ILike(products[listings[l].product_id].name, q)
        /\ platforms[listings[l].platform_id].name = s
        /\ listings[l].last_scraped_at >= now - Window

\* A step that runs CheckCache for p (the clock does not move in it).
IsCheckCache(p) ==
    /\ pc[p] \in Resting
    /\ now' = now
    /\ pc'[p] \in {"AllFresh", "dispatch"}

ResultsOf(p, s) == IF s = "Amazon" THEN amazon_results[p] ELSE flipkart_results[p]

MatchingProducts(q) == {i \in 1..Len(products) : ILike(products[i].name, q)}

\* C7: when the dispatched scrapers return no record at all, the call returns
\* (it does not fail) exactly the stored products whose name matches the
\* query, fresh or stale, the empty set when there is none, and the catalog
\* is left as it was.
C7_FallbackToStored ==
    [][\A p \in Procs :
        (/\ pc[p] = "dispatch"
         /\ pc'[p] # "dispatch"
         /\ amazon_results'[p] = <<>>
         /\ flipkart_results'[p] = <<>>)
        => /\ pc'[p] = "Fallback"
           /\ result'[p] = MatchingProducts(query[p])
           /\ dbvars' = dbvars]_vars

\* A call fell back to a stored product all of whose listings are stale.
C7_Witness ==
    /\ pc[1] = "Fallback"
    /\ result[1] # {}
    /\ \A l \in 1..Len(listings) : listings[l].last_scraped_at < now - Window

Returned == {"AllFresh", "Fallback", "Return"}

\* C8: whatever the return path, the returned products include every product
\* that matched the query when the call started and every product of a
\* listing the call reconciled.
C8_ResultCoversKnown ==
    \A p \in Procs :
        pc[p] \in Returned =>
            /\ existing_products[p] \subseteq result[p]
            /\ {listings[l].product_id : l \in new_listings[p]} \subseteq result[p]

\* The matching products that have a listing scraped within the window.
FreshMatching(q) ==
    {i \in MatchingProducts(q) :
        \E l \in 1..Len(listings) :
            /\ listings[l].product_id = i
            /\ listings[l].last_scraped_at >= now - Window}

\* C9: when CheckCache finds every source fresh, the call ends in AllFresh in
\* that same step: no scraper is entered, no table is written, and the
\* products returned are the matching products with a fresh listing; nothing
\* of the call runs after AllFresh.
C9_AllFreshTerminal ==
    [][\A p \in Procs :
        /\ (IsCheckCache(p) /\ \A s \in Sources : SourceFresh(s, query'[p])) =>
              /\ pc'[p] = "AllFresh"
              /\ invoked'[p] = {}
              /\ dbvars' = dbvars
              /\ result'[p] = FreshMatching(query'[p])
        /\ pc[p] = "AllFresh" =>
              /\ dbvars' = dbvars
              /\ pc'[p] \in {"AllFresh", "dispatch"}
              /\ pc'[p] = "dispatch" => IsCheckCache(p)]_vars

\* A call ended in AllFresh and returned a cached product.
C9_Witness ==
    /\ pc[1] = "AllFresh"
    /\ result[1] # {}
    /\ invoked[1] = {}

AtRest == \A p \in Procs : pc[p] \in {"idle"} \cup Returned

C11_OneProductPerName ==
    \A i, j \in 1..Len(products) :
        products[i].name = products[j].name => i = j

\* C26: once a record returned by a source's scraper has been reconciled
\* into a listing of a product whose name contains the query, a sync for that
\* query started within the window does not invoke that source's scraper.
C26_ReconciledSourceNotRefetched ==
    \A p \in SeqProcs, S \in Sources :
        pc[p] = "dispatch" /\ S \in needs[p]
        => ~ \E i \in 1..Len(listings) :
                /\ listings[i].scraped_by = S
                /\ ILike(products[listings[i].product_id].name, query[p])
                /\ listings[i].last_scraped_at >= now - Window

\* C27: refreshing a stored listing from a record without a price leaves the
\* listing's price as it was, and the history point then appended records
\* the listing's price.
C27_UnpricedRefreshKeepsPrice ==
    [][ \A p \in SeqProcs :
          LET el == existing_listing[p]
              unpriced == el # NoRow /\ Item(p).current_price = NoneNum
          IN  /\ pc[p] = "listing" /\ pc'[p] = "history" /\ unpriced
                  => listings'[el].price = listings[el].price
              /\ pc[p] = "history" /\ pc'[p] \in {"platform", "return"} /\ unpriced
                  => history'[Len(history')].price = listings[el].price ]_vars

\* C28: a record without a source-native id is never matched to a stored
\* listing: while it is reconciled, no existing listing has been found for
\* it, so it overwrites none.
C28_NoIdRecordNeverMatched ==
    \A p \in SeqProcs :
        pc[p] \in {"listing", "history"}
            /\ Item(p).platform_product_id = NoneStr
        => existing_listing[p] = NoRow

\* ---------------------------------------------------------------- ranking
\* rank_listings of server/app/services/comparison_service.py.  Floats are
\* fixed-point numbers: sub-scores in millionths, the score in ten-thousandths
\* (round(score, 4)), the reported sub-scores in hundredths (round(x, 2)).
MaxRanked == 2        \* listings in one ranking
Micro == 1000000      \* 1.0 as a sub-score

\* ProductListing as rank_listings reads it.  price is NOT NULL, and is 0 for
\* a record scraped without a price; discount_percentage and rating may be
\* NULL, and the scrapers never produce a negative number.
RankPrices == {0, 80, 100, 120}
RankDiscounts == {NoneNum, 10, 20}
RankRatings == {NoneNum, 4, 5}
RankedListings ==
    [platform : Sources,
     price : RankPrices,
     discount_percentage : RankDiscounts,
     rating : RankRatings]

MinOf(S) == CHOOSE x \in S : \A y \in S : x <= y
MaxOf(S) == CHOOSE x \in S : \A y \in S : x >= y

\* [l.f for l in listings if l.f is not None], as a set
NotNone(ls, f) == {ls[i][f] : i \in 1..Len(ls)} \ {NoneNum}

min_price(ls) == IF NotNone(ls, "price") = {} THEN 0 ELSE MinOf(NotNone(ls, "price"))
max_price(ls) == IF NotNone(ls, "price") = {} THEN 1 ELSE MaxOf(NotNone(ls, "price"))
MaxDiscountFixed(ls) == 100
max_discount(ls) ==
    IF NotNone(ls, "discount_percentage") = {} THEN 100
    ELSE MaxOf(NotNone(ls, "discount_percentage"))
max_rating(ls) == IF NotNone(ls, "rating") = {} THEN 5 ELSE MaxOf(NotNone(ls, "rating"))

\* x / (y + eps) for x, y >= 0 and eps = 1e-8, to the nearest millionth.  The
\* quotient is just below x / y, so an exact half rounds down; with y = 0 it
\* is x * 1e8, beyond anything it is compared with.
Quot(x, y) ==
    IF x = 0 THEN 0
    ELSE IF y = 0 THEN 100 * Micro
    ELSE (2 * Micro * x + y - 1) \div (2 * y)

Least(a, b) == IF a <= b THEN a ELSE b

norm_discount(l, ls) ==
    Least(Quot(Or(l.discount_percentage, 0), max_discount(ls)), Micro)

NormPriceMissingAsMin(l, ls) ==
    Micro - Least(Quot(Or(l.price, min_price(ls)) - min_price(ls),
                       max_price(ls) - min_price(ls)), Micro)
norm_price(l, ls) ==
    Micro - Least(Quot(Or(l.price, max_price(ls)) - min_price(ls),
                       max_price(ls) - min_price(ls)), Micro)

norm_rating(l, ls) ==
    Least(Quot(Or(l.rating, 0), max_rating(ls)), Micro)

\* round(0.4 * d + 0.4 * p + 0.2 * r, 4), in ten-thousandths
ScoreEqualWeights(l, ls) ==
    (4 * norm_discount(l, ls) + 4 * norm_price(l, ls)
        + 4 * norm_rating(l, ls) + 500) \div 1000
score(l, ls) ==
    (4 * norm_discount(l, ls) + 4 * norm_price(l, ls)
        + 2 * norm_rating(l, ls) + 500) \div 1000

\* round(x, 2), in hundredths
Round2(x) == (x + 5000) \div 10000

\* The dict appended for the listing at position i; "listing" refers to the
\* object by its position in the input.
Scored(ls, i) ==
    [listing |-> i,
     score |-> score(ls[i], ls),
     norm_discount |-> Round2(norm_discount(ls[i], ls)),
     norm_price |-> Round2(norm_price(ls[i], ls)),
     norm_rating |-> Round2(norm_rating(ls[i], ls))]

\* scored.sort(key=lambda x: x["score"], reverse=True): a stable sort, so
\* entries of equal score keep the order in which they were appended.
SortByScore(es) ==
    LET before(i, j) == \/ es[i].score > es[j].score
                        \/ es[i].score = es[j].score /\ i < j
        place(i) == 1 + Cardinality({j \in 1..Len(es) : before(j, i)})
    IN  [k \in 1..Len(es) |-> es[CHOOSE i \in 1..Len(es) : place(i) = k]]

rank_listings(ls) ==
    IF ls = <<>> THEN <<>>
    ELSE SortByScore([i \in 1..Len(ls) |-> Scored(ls, i)])

\* rank_listings is about to be called with some listings.
InitRank ==
    /\ SyncInit
    /\ rank_input \in SeqsUpTo(RankedListings, MaxRanked)
    /\ scored = <<>>
    /\ MatchIdle
    /\ ScraperCreated
    /\ ParseIdle
    /\ AuthInit
    /\ SavedInit

\* The call of rank_listings.
Rank ==
    /\ scored = <<>>
    /\ scored' = rank_listings(rank_input)
    /\ UNCHANGED <<syncvars, rank_input, matchvars, scrapervars, parsevars,
                   authvars, savedvars>>

NextRank == Rank

SpecRank == InitRank /\ [][NextRank]_vars

\* The listing an entry of the result refers to.
ListingOf(e) == rank_input[e.listing]

\* C12: whenever rank_listings was given at least one listing, the score of
\* every entry it returns lies between 0 and 1.
C12_ScoreInUnitInterval ==
    \A k \in 1..Len(scored) :
        scored[k].score >= 0 /\ scored[k].score * 100 <= Micro

\* A ranking of two listings, one with every sub-score at its best and one
\* with every sub-score at its worst.
C12_Witness ==
    /\ Len(rank_input) = 2
    /\ Len(scored) = 2
    /\ scored[1].score * 100 = Micro
    /\ scored[2].score = 0

\* ------------------------------------------------------------- best match
\* get_best_match of compare_products_cross_platform, the one place where the
\* server picks a single listing out of several.
MaxMatched == 3       \* listings in one call of get_best_match

\* ProductListing as get_best_match and its caller read it: the name is
\* listing.product.name.
MatchedListings == [name : Names, price : {80, 100, 120}]

LowerStr(t) == [i \in 1..Len(t) |-> Lower(t[i])]

\* search_query.lower() in name.lower()
Contains(name, q) ==
    \E i \in 0..(Len(name) - Len(q)) :
        \A d \in 1..Len(q) : LowerStr(name)[i + d] = LowerStr(q)[d]

\* The characters SequenceMatcher(None, a, b) matches between a[alo..ahi] and
\* b[blo..bhi]: the longest common block (the leftmost in a, then in b), then
\* the same to its left and to its right.
RECURSIVE Matched(_, _, _, _, _, _)
Matched(a, alo, ahi, b, blo, bhi) ==
    LET blocks == {x \in (alo..ahi) \X (blo..bhi) \X (1..Len(a)) :
                      /\ x[1] + x[3] - 1 <= ahi
                      /\ x[2] + x[3] - 1 <= bhi
                      /\ \A d \in 0..(x[3] - 1) : a[x[1] + d] = b[x[2] + d]}
        earlier(x, y) == \/ x[3] > y[3]
                         \/ x[3] = y[3] /\ x[1] < y[1]
                         \/ x[3] = y[3] /\ x[1] = y[1] /\ x[2] <= y[2]
    IN  IF blocks = {} THEN 0
        ELSE LET m == CHOOSE x \in blocks : \A y \in blocks : earlier(x, y)
             IN  m[3] + Matched(a, alo, m[1] - 1, b, blo, m[2] - 1)
                      + Matched(a, m[1] + m[3], ahi, b, m[2] + m[3], bhi)

\* SequenceMatcher(None, a, b).ratio(), in thousandths
Ratio(a, b) ==
    IF Len(a) + Len(b) = 0 THEN 1000
    ELSE (2000 * Matched(a, 1, Len(a), b, 1, Len(b))) \div (Len(a) + Len(b))

\* The score of a listing, with its boost, in thousandths.
MatchScore(l, q) ==
    Ratio(LowerStr(q), LowerStr(l.name)) + (IF Contains(l.name, q) THEN 200 ELSE 0)

\* The loop of get_best_match over ls[k..], with best_listing and best_score
\* as they stand.
RECURSIVE BestFrom(_, _, _, _, _)
BestFrom(ls, q, k, best, best_score) ==
    IF k > Len(ls) THEN best
    ELSE IF MatchScore(ls[k], q) > best_score
         THEN BestFrom(ls, q, k + 1, k, MatchScore(ls[k], q))
         ELSE BestFrom(ls, q, k + 1, best, best_score)

get_best_match(ls, q) ==
    IF ls = <<>> THEN NoRow ELSE BestFrom(ls, q, 1, NoRow, -1000)

\* get_best_match is about to be called on the listings of one platform.
InitMatch ==
    /\ SyncInit
    /\ RankIdle
    /\ match_input \in [listings : SeqsUpTo(MatchedListings, MaxMatched),
                        search_query : Queries]
    /\ best_listing = NoRow
    /\ ScraperCreated
    /\ ParseIdle
    /\ AuthInit
    /\ SavedInit

\* The call of get_best_match.
Match ==
    /\ best_listing = NoRow
    /\ best_listing' = get_best_match(match_input.listings, match_input.search_query)
    /\ UNCHANGED <<syncvars, rankvars, match_input, scrapervars, parsevars,
                   authvars, savedvars>>

NextMatch == Match

SpecMatch == InitMatch /\ [][NextMatch]_vars

\* Position of a source name in alphabetical order.
SourceRank(n) == IF n = "Amazon" THEN 1 ELSE 2

\* a comes strictly before b: higher score, then lower price, then source name.
RanksBefore(a, b) ==
    \/ a.score > b.score
    \/ /\ a.score = b.score
       /\ \/ ListingOf(a).price < ListingOf(b).price
          \/ /\ ListingOf(a).price = ListingOf(b).price
             /\ SourceRank(ListingOf(a).platform) <= SourceRank(ListingOf(b).platform)

\* C13: the list rank_listings returns holds every input listing exactly
\* once, in descending order of score, entries of equal score in ascending
\* order of price and entries of equal score and price in order of source
\* name.
C13_RankedByScorePriceSource ==
    scored # <<>> =>
        /\ Len(scored) = Len(rank_input)
        /\ \A i \in 1..Len(rank_input) : \E k \in 1..Len(scored) : scored[k].listing = i
        /\ \A k \in 1..(Len(scored) - 1) : RanksBefore(scored[k], scored[k + 1])

\* The stored prices of the listings that were ranked.
RankedPrices == {rank_input[i].price : i \in 1..Len(rank_input)}

\* C14: among the entries rank_listings returns, a listing with a lower
\* stored price never has a lower norm_price than a listing with a higher
\* one, a listing of the lowest stored price has the highest norm_price of
\* all, and a listing without a price (stored as 0) has the norm_price of
\* the listings of the highest price, which is the lowest of all.
C14_NormPriceMonotone ==
    \A a, b \in 1..Len(scored) :
        LET pa == ListingOf(scored[a]).price
            pb == ListingOf(scored[b]).price
            na == scored[a].norm_price
            nb == scored[b].norm_price
        IN  /\ Truthy(pa) /\ Truthy(pb) /\ pa < pb => na >= nb
            /\ Truthy(pa) /\ pa = MinOf(RankedPrices \ {0}) => na >= nb
            /\ ~Truthy(pa) /\ pb = MaxOf(RankedPrices) => na = nb
            /\ ~Truthy(pa) => na <= nb

\* A ranking of a listing of price 80 and a listing of price 120, the
\* cheaper one with norm_price 1 and the dearer one with norm_price 0.
C14_Witness ==
    /\ Len(scored) = 2
    /\ \E a, b \in 1..2 :
          /\ ListingOf(scored[a]).price = 80
          /\ ListingOf(scored[b]).price = 120
          /\ scored[a].norm_price = 100
          /\ scored[b].norm_price = 0

\* C15: when rank_listings was given a single listing whose price, discount
\* and rating are all positive, the score of the one entry it returns is 1.0.
C15_SingleListingScoresOne ==
    /\ Len(scored) = 1
    /\ rank_input[1].price > 0
    /\ rank_input[1].discount_percentage > 0
    /\ rank_input[1].rating > 0
    => scored[1].score * 100 = Micro

\* The ranking of the single listing of price 100, discount 10 and rating 4.
C15_Witness ==
    /\ Len(scored) = 1
    /\ rank_input[1].price = 100
    /\ rank_input[1].discount_percentage = 10
    /\ rank_input[1].rating = 4
    /\ scored[1].score * 100 = Micro

\* C16: the single listing the program selects out of a non-empty set has
\* the minimum price of the set, and no listing before it in the set has
\* that price.
C16_SelectsFirstMinimumPrice ==
    best_listing # NoRow =>
        LET ls == match_input.listings
        IN  /\ \A i \in 1..Len(ls) : ls[best_listing].price <= ls[i].price
            /\ \A i \in 1..(best_listing - 1) : ls[i].price > ls[best_listing].price

\* ------------------------------------------------------------ fetch client
\* BaseScraper of server/app/services/scrapers/base.py used in a with-block:
\* __enter__, calls of _get_page_content, __exit__.  Time passes in whole
\* seconds, at any point of the block.
MaxClock == 10        \* the clock stops here
MaxFetches == 2       \* calls of _get_page_content in one block

RetryTotal == 3       \* Retry(total=3)
backoff_factor == 1   \* Retry(backoff_factor=1)

\* How one request can end: a page, a failure worth retrying (timeout,
\* transport error, status 429/500/502/503/504), or any other failure.
Outcomes == {"ok", "transient", "permanent"}

\* urllib3's Retry.get_backoff_time after n consecutive failures.
get_backoff_time(n) == IF n <= 1 THEN 0 ELSE backoff_factor * 2 ^ (n - 1)

\* A scraper, Selenium or not, is about to be used in a with-block.
InitScraper ==
    /\ SyncInit
    /\ RankIdle
    /\ MatchIdle
    /\ \E selenium \in BOOLEAN : BaseScraperInit(selenium)
    /\ ParseIdle
    /\ AuthInit
    /\ SavedInit

notscraper == <<syncvars, rankvars, matchvars, parsevars, authvars, savedvars>>

Enter ==
    /\ scope = "created"
    /\ scope' = "entered"
    /\ UNCHANGED <<use_selenium, clock, last_request_time, driver, session,
                   browser, connection, fpc, fetches, attempts, prev_first,
                   content, raised, propagated>>
    /\ UNCHANGED notscraper

\* A second passes: in the caller between two calls, while Chrome starts,
\* or while a request is being answered.
Elapse ==
    /\ scope = "entered"
    /\ fpc \in {"idle", "starting", "sent"}
    /\ clock < MaxClock
    /\ clock' = clock + 1
    /\ UNCHANGED <<scope, use_selenium, last_request_time, driver, session,
                   browser, connection, fpc, fetches, attempts, prev_first,
                   content, raised, propagated>>
    /\ UNCHANGED notscraper

\* _get_page_content with a _rate_limit that reads the time once, before
\* the sleep, and stamps last_request_time with that reading.
RateLimitStampsFirst ==
    /\ scope = "entered"
    /\ fpc = "idle"
    /\ fetches < MaxFetches
    /\ LET time_since_last_request == clock - last_request_time
           woken == IF time_since_last_request < rate_limit_seconds
                    THEN clock + (rate_limit_seconds - time_since_last_request)
                    ELSE clock
       IN  /\ woken <= MaxClock
           /\ clock' = woken
           /\ last_request_time' = clock
    /\ fetches' = fetches + 1
    /\ prev_first' = IF attempts = <<>> THEN NoneNum ELSE attempts[1].time
    /\ attempts' = <<>>
    /\ fpc' = "limited"
    /\ UNCHANGED <<scope, use_selenium, driver, session, browser, connection,
                   content, raised, propagated>>
    /\ UNCHANGED notscraper

\* _get_page_content is called: _rate_limit sleeps until rate_limit_seconds
\* have passed since last_request_time, then stamps last_request_time.
RateLimit ==
    /\ scope = "entered"
    /\ fpc = "idle"
    /\ fetches < MaxFetches
    /\ LET time_since_last_request == clock - last_request_time
           woken == IF time_since_last_request < rate_limit_seconds
                    THEN clock + (rate_limit_seconds - time_since_last_request)
                    ELSE clock
       IN  /\ woken <= MaxClock
           /\ clock' = woken
           /\ last_request_time' = woken
    /\ fetches' = fetches + 1
    /\ prev_first' = IF attempts = <<>> THEN NoneNum ELSE attempts[1].time
    /\ attempts' = <<>>
    /\ fpc' = "limited"
    /\ UNCHANGED <<scope, use_selenium, driver, session, browser, connection,
                   content, raised, propagated>>
    /\ UNCHANGED notscraper

\* The client is looked up: the driver, which has to be started on first
\* use, or the session, created on first use.
GetClient ==
    /\ scope = "entered"
    /\ fpc = "limited"
    /\ \/ /\ use_selenium
          /\ driver # NoneStr
          /\ fpc' = "ready"
          /\ UNCHANGED <<session, connection>>
       \/ /\ use_selenium
          /\ driver = NoneStr
          /\ fpc' = "starting"
          /\ UNCHANGED <<session, connection>>
       \/ /\ ~use_selenium
          /\ session' = "session"
          /\ connection' = "open"
          /\ fpc' = "ready"
    /\ UNCHANGED <<scope, use_selenium, clock, last_request_time, driver,
                   browser, fetches, attempts, prev_first, content, raised,
                   propagated>>
    /\ UNCHANGED notscraper

\* _init_selenium_driver returns the started Chrome, or raises, which
\* _get_page_content catches.
StartDriver ==
    /\ scope = "entered"
    /\ fpc = "starting"
    /\ \/ /\ driver' = "driver"
          /\ browser' = "open"
          /\ fpc' = "ready"
          /\ UNCHANGED content
       \/ /\ content' = NoneStr
          /\ fpc' = "idle"
          /\ UNCHANGED <<driver, browser>>
    /\ UNCHANGED <<scope, use_selenium, clock, last_request_time, session,
                   connection, fetches, attempts, prev_first, raised,
                   propagated>>
    /\ UNCHANGED notscraper

\* driver.get(url), or one attempt of session.get(url): the request goes out.
Send ==
    /\ scope = "entered"
    /\ fpc = "ready"
    /\ attempts' = Append(attempts, [time |-> clock, outcome |-> "pending"])
    /\ fpc' = "sent"
    /\ UNCHANGED <<scope, use_selenium, clock, last_request_time, driver,
                   session, browser, connection, fetches, prev_first, content,
                   raised, propagated>>
    /\ UNCHANGED notscraper

\* The last request of the current call, with its outcome filled in.
Answered(o) == [attempts EXCEPT ![Len(attempts)].outcome = o]

\* The request ends.  A page is returned; a failure of driver.get or of the
\* wait for <body> is caught and None returned; session.get retries a
\* transient failure RetryTotal times, sleeping get_backoff_time before each
\* retry, and any failure it lets through is caught and None returned.
Respond ==
    /\ scope = "entered"
    /\ fpc = "sent"
    /\ \E o \in Outcomes :
          /\ attempts' = Answered(o)
          /\ \/ /\ o = "ok"
                /\ content' = "html"
                /\ fpc' = "idle"
                /\ UNCHANGED clock
             \/ /\ o = "permanent"
                /\ content' = NoneStr
                /\ fpc' = "idle"
                /\ UNCHANGED clock
             \/ /\ o = "transient"
                /\ use_selenium \/ Len(attempts) > RetryTotal
                /\ content' = NoneStr
                /\ fpc' = "idle"
                /\ UNCHANGED clock
             \/ /\ o = "transient"
                /\ ~use_selenium
                /\ Len(attempts) <= RetryTotal
                /\ clock + get_backoff_time(Len(attempts)) <= MaxClock
                /\ clock' = clock + get_backoff_time(Len(attempts))
                /\ fpc' = "ready"
                /\ UNCHANGED content
    /\ UNCHANGED <<scope, use_selenium, last_request_time, driver, session,
                   browser, connection, fetches, prev_first, raised, propagated>>
    /\ UNCHANGED notscraper

\* The with-block ends: it returns between two calls, or raises anywhere.
BlockEnds ==
    /\ scope = "entered"
    /\ \E exc \in BOOLEAN :
          /\ exc \/ fpc = "idle"
          /\ raised' = exc
    /\ scope' = "exiting"
    /\ UNCHANGED <<use_selenium, clock, last_request_time, driver, session,
                   browser, connection, fpc, fetches, attempts, prev_first,
                   content, propagated>>
    /\ UNCHANGED notscraper

\* __exit__ with a cleanup that resets an attribute only after a clean close.
ExitKeepsFailed ==
    /\ scope = "exiting"
    /\ \E quit_raises, close_raises \in BOOLEAN :
          /\ IF driver # NoneStr
             THEN /\ browser' = IF quit_raises THEN "quit failed" ELSE "quit"
                  /\ driver' = IF quit_raises THEN driver ELSE NoneStr
             ELSE UNCHANGED <<browser, driver>>
          /\ IF session # NoneStr
             THEN /\ connection' = IF close_raises THEN "close failed" ELSE "closed"
                  /\ session' = IF close_raises THEN session ELSE NoneStr
             ELSE UNCHANGED <<connection, session>>
    /\ propagated' = raised
    /\ scope' = "exited"
    /\ UNCHANGED <<use_selenium, clock, last_request_time, fpc, fetches,
                   attempts, prev_first, content, raised>>
    /\ UNCHANGED notscraper

\* __exit__: cleanup() quits the driver and closes the session if there is
\* one, either of which may raise; the attribute is reset in a finally
\* clause.  __exit__ returns False, so an exception of the block goes on to
\* the caller.
Exit ==
    /\ scope = "exiting"
    /\ \E quit_raises, close_raises \in BOOLEAN :
          /\ IF driver # NoneStr
             THEN /\ browser' = IF quit_raises THEN "quit failed" ELSE "quit"
                  /\ driver' = NoneStr
             ELSE UNCHANGED <<browser, driver>>
          /\ IF session # NoneStr
             THEN /\ connection' = IF close_raises THEN "close failed" ELSE "closed"
                  /\ session' = NoneStr
             ELSE UNCHANGED <<connection, session>>
    /\ propagated' = raised
    /\ scope' = "exited"
    /\ UNCHANGED <<use_selenium, clock, last_request_time, fpc, fetches,
                   attempts, prev_first, content, raised>>
    /\ UNCHANGED notscraper

NextScraper ==
    \/ Enter
    \/ Elapse
    \/ RateLimit
    \/ GetClient
    \/ StartDriver
    \/ Send
    \/ Respond
    \/ BlockEnds
    \/ Exit

SpecScraper == InitScraper /\ [][NextScraper]_vars

\* C17: whenever two consecutive calls of _get_page_content have each issued
\* a request, the first request of the later call went out at least
\* rate_limit_seconds after the first request of the earlier call.
C17_RequestsRateLimited ==
    prev_first # NoneNum /\ attempts # <<>> =>
        attempts[1].time - prev_first >= rate_limit_seconds

\* C18: once a call of _get_page_content is over, only a transient failure
\* was followed by another attempt, each retry came no sooner than its
\* backoff delay after the attempt before it, there were no more than
\* RetryTotal retries, and a call that ended on a transient failure used
\* them all.
C18_TransientFailuresRetried ==
    fpc = "idle" /\ attempts # <<>> =>
        /\ Len(attempts) <= RetryTotal + 1
        /\ \A k \in 1..(Len(attempts) - 1) :
              /\ attempts[k].outcome = "transient"
              /\ attempts[k + 1].time - attempts[k].time >= get_backoff_time(k)
        /\ attempts[Len(attempts)].outcome = "transient"
              => Len(attempts) = RetryTotal + 1

\* C19: once the with-block of a scraper is left, normally or by an
\* exception, its driver and its session are None, the browser and the
\* connection behind them were closed or at least told to close, and the
\* with statement raised to its caller exactly if the block raised.
C19_ScopedCleanup ==
    scope = "exited" =>
        /\ driver = NoneStr
        /\ session = NoneStr
        /\ browser # "open"
        /\ connection # "open"
        /\ propagated = raised

\* A block that started Chrome and then raised, left with a driver.quit()
\* that failed.
C19_Witness ==
    /\ scope = "exited"
    /\ raised
    /\ propagated
    /\ browser = "quit failed"
    /\ driver = NoneStr

\* C25: every call of _get_page_content stamps last_request_time with the
\* time at which the call goes on to its request, at least
\* rate_limit_seconds after the stamp of the call before it, and nothing
\* that happens later in the call (a failed start of the driver, a failed
\* request) takes the stamp back: the next call is paced from it.
C25_EveryFetchAdvancesClock ==
    [][ /\ fetches' = fetches + 1 =>
              /\ last_request_time' = clock'
              /\ last_request_time' >= last_request_time + rate_limit_seconds
        /\ fetches' = fetches => last_request_time' = last_request_time ]_vars

\* The second call has just been paced, after a first call whose request
\* failed.
C25_Witness ==
    /\ fetches = 2
    /\ fpc = "limited"
    /\ prev_first # NoneNum
    /\ content = NoneStr
    /\ last_request_time = clock
    /\ last_request_time >= prev_first + rate_limit_seconds

\* ----------------------------------------------------------- search pages
\* search_products of AmazonScraper and FlipkartScraper with
\* fetch_details=False, as the synchronisation calls it: the records of the
\* first max_results containers of the search-result page.  (The loop that
\* collects product_urls before it only feeds the log in this mode.)
MaxContainers == 3    \* containers on one page

\* What the code finds in a container: a link, a name and an id; no usable
\* link; no name; or markup on which an extraction raises.
Containers ==
    [kind : {"ok", "no link", "no name", "raises"}, id : {"X", "Y"}]

\* The page as fetched: None when the fetch failed, "broken" when building
\* or querying the soup raises.
Pages ==
    [html_content : {NoneStr, "html", "broken"},
     product_containers : SeqsUpTo(Containers, MaxContainers),
     max_results : 1..MaxContainers]

\* The ScrapedProductData built from a container.
Record(c) == [name |-> IF c.kind = "no name" THEN NoneStr ELSE "n",
              platform_product_id |-> c.id]

\* The loop over product_containers[:max_results] from container k on, with
\* results as they stand, but without the try/except around one item: the
\* exception ends the loop and is caught by the outer except.
RECURSIVE LoopNoItemCatch(_, _, _, _)
LoopNoItemCatch(cs, max, k, rs) ==
    IF k > Len(cs) \/ Len(rs) >= max THEN rs
    ELSE IF cs[k].kind = "raises" THEN rs
    ELSE IF cs[k].kind = "no link" THEN LoopNoItemCatch(cs, max, k + 1, rs)
    ELSE IF Record(cs[k]).name = NoneStr THEN LoopNoItemCatch(cs, max, k + 1, rs)
    ELSE LoopNoItemCatch(cs, max, k + 1, Append(rs, Record(cs[k])))

\* The loop over product_containers[:max_results] from container k on, with
\* results as they stand.
RECURSIVE Loop(_, _, _, _)
Loop(cs, max, k, rs) ==
    IF k > Len(cs) \/ Len(rs) >= max THEN rs
    ELSE IF cs[k].kind = "raises" THEN Loop(cs, max, k + 1, rs)
    ELSE IF cs[k].kind = "no link" THEN Loop(cs, max, k + 1, rs)
    ELSE IF Record(cs[k]).name = NoneStr THEN Loop(cs, max, k + 1, rs)
    ELSE Loop(cs, max, k + 1, Append(rs, Record(cs[k])))

\* product_containers[:max_results]
FirstContainers(cs, max) == SubSeq(cs, 1, Least(max, Len(cs)))

\* How search_products ends: the outer try/except lets no exception out,
\* and the list is returned as it stands.
search_products(inp) ==
    [ended |-> "returned",
     records |-> IF inp.html_content = NoneStr THEN <<>>
                 ELSE IF inp.html_content = "broken" THEN <<>>
                 ELSE Loop(FirstContainers(inp.product_containers, inp.max_results),
                           inp.max_results, 1, <<>>)]

\* search_products has fetched some page.
InitSearch ==
    /\ SyncInit
    /\ RankIdle
    /\ MatchIdle
    /\ ScraperCreated
    /\ search_input \in Pages
    /\ results = [ended |-> "pending", records |-> <<>>]
    /\ AuthInit
    /\ SavedInit

\* The rest of search_products.
Search ==
    /\ results.ended = "pending"
    /\ results' = search_products(search_input)
    /\ UNCHANGED <<syncvars, rankvars, matchvars, scrapervars, search_input,
                   authvars, savedvars>>

NextSearch == Search

SpecSearch == InitSearch /\ [][NextSearch]_vars

\* The containers search_products looks at that have a link, a name and an id.
Parsable ==
    SelectSeq(FirstContainers(search_input.product_containers,
                              search_input.max_results),
              LAMBDA c : c.kind = "ok")

\* C20: search_products always returns and never raises, and for a page it
\* could fetch and read it returns the record of every container among the
\* first max_results that has a link and a name, in page order, whatever
\* happened with the other containers.
C20_ItemFailureSkipsItem ==
    results.ended # "pending" =>
        /\ results.ended = "returned"
        /\ search_input.html_content = "html" =>
              results.records = [i \in 1..Len(Parsable) |-> Record(Parsable[i])]

\* A page whose first container raises, whose second has no name and whose
\* third is sound: the record of the third is returned.
C20_Witness ==
    /\ results.ended = "returned"
    /\ search_input.html_content = "html"
    /\ search_input.max_results = 3
    /\ Len(search_input.product_containers) = 3
    /\ search_input.product_containers[1].kind = "raises"
    /\ search_input.product_containers[2].kind = "no name"
    /\ search_input.product_containers[3].kind = "ok"
    /\ results.records = <<Record(search_input.product_containers[3])>>

\* ------------------------------------------------------------------ auth
\* signup, login and refresh_access_token of
\* server/app/services/auth_service.py, with user_service.add and
\* user_auth_service.add.  A row of users and of user_auth has its position
\* as id.  Every db.commit() ends a step.
MaxUsers == 2         \* rows of the users table
MaxIssued == 3        \* refresh-token strings generated in one behaviour
MaxDay == 2           \* the auth clock stops here

\* settings.REFRESH_TOKEN_EXPIRE_DAYS, in days of the auth clock.
REFRESH_TOKEN_EXPIRE_DAYS == 1

Emails == {"e1", "e2"}
Passwords == {"p", "q"}   \* what a login may present
Registered == {"p"}       \* what a signup registers

\* app.utils.security: the hash of a password, and its verification.
get_password_hash(password) == <<"hash", password>>
verify_password(plain_password, hashed_password) ==
    hashed_password = get_password_hash(plain_password)

\* app.utils.security.create_access_token: a token for the subject.
create_access_token(user_id) == [sub |-> user_id]

\* app.utils.security.create_refresh_token_string: a string not generated
\* before, here the number of strings generated so far plus one.
create_refresh_token_string == issued + 1

notauth == <<syncvars, rankvars, matchvars, scrapervars, parsevars, savedvars>>

AuthRest == {"idle", "done"}

\* Requests received and not yet answered.
InFlight == {q \in Procs : apc[q] \notin AuthRest}

\* A day passes, between requests.
AuthTick ==
    /\ today < MaxDay
    /\ InFlight = {}
    /\ today' = today + 1
    /\ UNCHANGED <<users, user_auth, refresh_tokens, issued, apc, areq, aloc, resp>>
    /\ UNCHANGED notauth

\* api/users.py toggle_user_active, served between the auth requests.
ToggleUserActive ==
    /\ InFlight = {}
    /\ \E user_id \in 1..Len(users) :
          /\ ~ users[user_id].is_deleted
          /\ users' = [users EXCEPT ![user_id].is_active = ~ @]
    /\ UNCHANGED <<user_auth, refresh_tokens, issued, today, apc, areq, aloc, resp>>
    /\ UNCHANGED notauth

\* A request arrives at p.
Call(p, request, first) ==
    /\ apc[p] \in AuthRest
    /\ issued + Cardinality(InFlight) < MaxIssued
    /\ areq' = [areq EXCEPT ![p] = request]
    /\ aloc' = [aloc EXCEPT ![p] = NoLocals]
    /\ resp' = [resp EXCEPT ![p] = NoResponse]
    /\ apc' = [apc EXCEPT ![p] = first]
    /\ UNCHANGED <<users, user_auth, refresh_tokens, issued, today>>
    /\ UNCHANGED notauth

\* The request is answered with an error status and no token.
Rejected(p, code) ==
    /\ resp' = [resp EXCEPT ![p] = [NoResponse EXCEPT !.status = code]]
    /\ apc' = [apc EXCEPT ![p] = "done"]

\* POST /api/auth/signup
SignupCall(p) ==
    /\ Len(users) + Cardinality({q \in Procs : apc[q] = "add_user"}) < MaxUsers
    /\ \E e \in Emails, pw \in Registered :
          Call(p, [op |-> "signup", email |-> e, password |-> pw,
                   refresh_token |-> NoneNum], "add_user")

\* user_service.add: the User row is inserted and committed.
AddUser(p) ==
    /\ apc[p] = "add_user"
    /\ users' = Append(users, [is_active |-> TRUE, is_deleted |-> FALSE])
    /\ aloc' = [aloc EXCEPT ![p].user_id = Len(users) + 1]
    /\ apc' = [apc EXCEPT ![p] = "add_user_auth"]
    /\ UNCHANGED <<user_auth, refresh_tokens, issued, today, areq, resp>>
    /\ UNCHANGED notauth

\* user_auth_service.add: 400 when the email or the user already has a
\* user_auth row, else the row is inserted and committed.
AddUserAuth(p) ==
    /\ apc[p] = "add_user_auth"
    /\ LET existing_auth ==
               {i \in 1..Len(user_auth) : user_auth[i].email = areq[p].email}
           existing_user_auth ==
               {i \in 1..Len(user_auth) : user_auth[i].user_id = aloc[p].user_id}
       IN  IF existing_auth # {} \/ existing_user_auth # {}
           THEN /\ Rejected(p, 400)
                /\ UNCHANGED user_auth
           ELSE /\ user_auth' = Append(user_auth,
                        [user_id |-> aloc[p].user_id,
                         email |-> areq[p].email,
                         password |-> get_password_hash(areq[p].password),
                         is_deleted |-> FALSE])
                /\ apc' = [apc EXCEPT ![p] = "tokens"]
                /\ UNCHANGED resp
    /\ UNCHANGED <<users, refresh_tokens, issued, today, areq, aloc>>
    /\ UNCHANGED notauth

\* POST /api/auth/login
LoginCall(p) ==
    \E e \in Emails, pw \in Passwords :
        Call(p, [op |-> "login", email |-> e, password |-> pw,
                 refresh_token |-> NoneNum], "login")

\* LoginCheck accepting any password for a registered email.
LoginCheckAnyPassword(p) ==
    /\ apc[p] = "login"
    /\ LET rows == {i \in 1..Len(user_auth) : user_auth[i].email = areq[p].email}
       IN  IF rows = {}
           THEN /\ Rejected(p, 401)
                /\ UNCHANGED aloc
           ELSE \E i \in rows :
                  LET user_id == user_auth[i].user_id
                      no_user == \/ user_id \notin 1..Len(users)
                                 \/ ~ users[user_id].is_active
                                 \/ users[user_id].is_deleted
                  IN  IF user_auth[i].is_deleted \/ no_user
                      THEN /\ Rejected(p, 401)
                           /\ UNCHANGED aloc
                      ELSE /\ aloc' = [aloc EXCEPT ![p].user_id = user_id]
                           /\ apc' = [apc EXCEPT ![p] = "tokens"]
                           /\ UNCHANGED resp
    /\ UNCHANGED <<users, user_auth, refresh_tokens, issued, today, areq>>
    /\ UNCHANGED notauth

\* login, lines 31-56: 401 unless the email has a user_auth row that is not
\* deleted, of an active user, whose password verifies.
LoginCheck(p) ==
    /\ apc[p] = "login"
    /\ LET rows == {i \in 1..Len(user_auth) : user_auth[i].email = areq[p].email}
       IN  IF rows = {}
           THEN /\ Rejected(p, 401)
                /\ UNCHANGED aloc
           ELSE \E i \in rows :
                  LET user_id == user_auth[i].user_id
                      no_user == \/ user_id \notin 1..Len(users)
                                 \/ ~ users[user_id].is_active
                                 \/ users[user_id].is_deleted
                  IN  IF \/ user_auth[i].is_deleted
                         \/ no_user
                         \/ ~ verify_password(areq[p].password, user_auth[i].password)
                      THEN /\ Rejected(p, 401)
                           /\ UNCHANGED aloc
                      ELSE /\ aloc' = [aloc EXCEPT ![p].user_id = user_id]
                           /\ apc' = [apc EXCEPT ![p] = "tokens"]
                           /\ UNCHANGED resp
    /\ UNCHANGED <<users, user_auth, refresh_tokens, issued, today, areq>>
    /\ UNCHANGED notauth

\* POST /api/auth/refresh: the body carries a string that was generated
\* (1..issued) or one that never was (0).
RefreshCall(p) ==
    \E t \in 0..issued :
        Call(p, [op |-> "refresh", email |-> NoneStr, password |-> NoneStr,
                 refresh_token |-> t], "lookup")

\* refresh_access_token, lines 87-95: the row of the token, 401 without one.
RefreshLookup(p) ==
    /\ apc[p] = "lookup"
    /\ LET rows == {r \in refresh_tokens :
                       r.token = areq[p].refresh_token /\ ~ r.is_deleted}
       IN  IF rows = {}
           THEN /\ Rejected(p, 401)
                /\ UNCHANGED aloc
           ELSE \E row \in rows :
                   /\ aloc' = [aloc EXCEPT ![p].row = row]
                   /\ apc' = [apc EXCEPT ![p] = "redeem"]
                   /\ UNCHANGED resp
    /\ UNCHANGED <<users, user_auth, refresh_tokens, issued, today, areq>>
    /\ UNCHANGED notauth

\* The user_auth row and the user of a refresh-token row are there, not
\* deleted, and the user is active (lines 103-118).
OwnerOk(row) ==
    /\ \E i \in 1..Len(user_auth) :
          user_auth[i].user_id = row.user_id /\ ~ user_auth[i].is_deleted
    /\ row.user_id \in 1..Len(users)
    /\ users[row.user_id].is_active
    /\ ~ users[row.user_id].is_deleted

\* RefreshRedeem without the comparison of expires_at with the clock.
RefreshRedeemIgnoresExpiry(p) ==
    /\ apc[p] = "redeem"
    /\ LET row == aloc[p].row
       IN  /\ refresh_tokens' = refresh_tokens \ {row}
           /\ IF ~ OwnerOk(row)
              THEN /\ Rejected(p, 401)
                   /\ UNCHANGED aloc
              ELSE /\ aloc' = [aloc EXCEPT ![p].user_id = row.user_id]
                   /\ apc' = [apc EXCEPT ![p] = "tokens"]
                   /\ UNCHANGED resp
    /\ UNCHANGED <<users, user_auth, issued, today, areq>>
    /\ UNCHANGED notauth

\* refresh_access_token, lines 96-120: in every branch db.delete(row) and
\* db.commit(), a DELETE that removes the row if it is still there; 401 for
\* an expired row or a missing, deleted or inactive owner.
RefreshRedeem(p) ==
    /\ apc[p] = "redeem"
    /\ LET row == aloc[p].row
       IN  /\ refresh_tokens' = refresh_tokens \ {row}
           /\ IF row.expires_at < today \/ ~ OwnerOk(row)
              THEN /\ Rejected(p, 401)
                   /\ UNCHANGED aloc
              ELSE /\ aloc' = [aloc EXCEPT ![p].user_id = row.user_id]
                   /\ apc' = [apc EXCEPT ![p] = "tokens"]
                   /\ UNCHANGED resp
    /\ UNCHANGED <<users, user_auth, issued, today, areq>>
    /\ UNCHANGED notauth

\* GenerateTokens storing the new refresh token after a signup or a login
\* only: the one returned by a refresh is not stored.
GenerateTokensRefreshUnstored(p) ==
    /\ apc[p] = "tokens"
    /\ LET refresh_token_str == create_refresh_token_string
           expires_at == today + REFRESH_TOKEN_EXPIRE_DAYS
       IN  /\ issued' = issued + 1
           /\ refresh_tokens' =
                   IF areq[p].op = "refresh" THEN refresh_tokens
                   ELSE refresh_tokens \cup
                           {[user_id |-> aloc[p].user_id,
                             token |-> refresh_token_str,
                             expires_at |-> expires_at,
                             is_deleted |-> FALSE]}
           /\ resp' = [resp EXCEPT ![p] =
                   [status |-> IF areq[p].op = "signup" THEN 201 ELSE 200,
                    access_token |-> create_access_token(aloc[p].user_id),
                    refresh_token |-> refresh_token_str]]
    /\ apc' = [apc EXCEPT ![p] = "done"]
    /\ UNCHANGED <<users, user_auth, today, areq, aloc>>
    /\ UNCHANGED notauth

\* generate_token_response, lines 61-82: an access token for the user, a
\* new refresh-token string, its row inserted and committed.
GenerateTokens(p) ==
    /\ apc[p] = "tokens"
    /\ LET refresh_token_str == create_refresh_token_string
           expires_at == today + REFRESH_TOKEN_EXPIRE_DAYS
       IN  /\ issued' = issued + 1
           /\ refresh_tokens' = refresh_tokens \cup
                   {[user_id |-> aloc[p].user_id,
                     token |-> refresh_token_str,
                     expires_at |-> expires_at,
                     is_deleted |-> FALSE]}
           /\ resp' = [resp EXCEPT ![p] =
                   [status |-> IF areq[p].op = "signup" THEN 201 ELSE 200,
                    access_token |-> create_access_token(aloc[p].user_id),
                    refresh_token |-> refresh_token_str]]
    /\ apc' = [apc EXCEPT ![p] = "done"]
    /\ UNCHANGED <<users, user_auth, today, areq, aloc>>
    /\ UNCHANGED notauth

Handle(p) ==
    \/ SignupCall(p)
    \/ AddUser(p)
    \/ AddUserAuth(p)
    \/ LoginCall(p)
    \/ LoginCheck(p)
    \/ RefreshCall(p)
    \/ RefreshLookup(p)
    \/ RefreshRedeem(p)
    \/ GenerateTokens(p)

\* Auth requests served one at a time.
NextAuth ==
    \/ AuthTick
    \/ ToggleUserActive
    \/ \E p \in SeqProcs : Handle(p)

SpecAuth == Init /\ [][NextAuth]_vars

\* Auth requests served by two workers.
NextAuthConc ==
    \/ AuthTick
    \/ ToggleUserActive
    \/ \E p \in Procs : Handle(p)

SpecAuthConc == Init /\ [][NextAuthConc]_vars

\* The rows a refresh request presenting t can redeem: stored, not deleted,
\* not expired, of an active user.
ValidRows(t) ==
    {r \in refresh_tokens :
        r.token = t /\ ~ r.is_deleted /\ r.expires_at >= today /\ OwnerOk(r)}

\* Request p takes a step.
Steps(p) == apc'[p] # apc[p]

\* The response carries no token.
NoTokens(r) == r.access_token = NoRow /\ r.refresh_token = NoneNum

\* C21: a refresh request presenting a valid, unexpired refresh token of an
\* active user passes the lookup and the checks, and is answered with 200,
\* an access token of that user and a refresh token other than the presented
\* one, which is then stored, unexpired, for that user.
C21_ValidRefreshRotates ==
    [][ \A p \in SeqProcs :
          /\ apc[p] = "lookup" /\ ValidRows(areq[p].refresh_token) # {} /\ Steps(p)
                => /\ apc'[p] = "redeem"
                   /\ aloc'[p].row \in ValidRows(areq[p].refresh_token)
          /\ apc[p] = "redeem" /\ aloc[p].row \in ValidRows(areq[p].refresh_token)
                   /\ Steps(p)
                => /\ apc'[p] = "tokens"
                   /\ aloc'[p].user_id = aloc[p].row.user_id
          /\ apc[p] = "tokens" /\ areq[p].op = "refresh" /\ Steps(p)
                => /\ apc'[p] = "done"
                   /\ resp'[p].status = 200
                   /\ resp'[p].access_token = create_access_token(aloc[p].row.user_id)
                   /\ resp'[p].refresh_token # areq[p].refresh_token
                   /\ \E r \in refresh_tokens' :
                         /\ r.token = resp'[p].refresh_token
                         /\ r.user_id = aloc[p].row.user_id
                         /\ ~ r.is_deleted
                         /\ r.expires_at >= today'
                         /\ OwnerOk(r)' ]_vars

\* The second user's token was redeemed: the answer carries another token,
\* stored for the second user, and the presented one is gone.
C21_Witness ==
    /\ apc[1] = "done"
    /\ areq[1].op = "refresh"
    /\ resp[1].status = 200
    /\ aloc[1].row.user_id = 2
    /\ resp[1].refresh_token # areq[1].refresh_token
    /\ \E r \in ValidRows(resp[1].refresh_token) : r.user_id = 2
    /\ ValidRows(areq[1].refresh_token) = {}

\* C22: a refresh request presenting a string with no stored row (never
\* issued, or consumed), or one whose row is expired, is answered 401 with no
\* token; no token string is generated and no row is added.
C22_InvalidRefreshRejected ==
    [][ \A p \in SeqProcs :
          LET t == areq[p].refresh_token
              stored == {r \in refresh_tokens : r.token = t /\ ~ r.is_deleted}
              nothing_issued == /\ apc'[p] = "done"
                                /\ resp'[p].status = 401
                                /\ NoTokens(resp'[p])
                                /\ issued' = issued
                                /\ refresh_tokens' \subseteq refresh_tokens
          IN  /\ apc[p] = "lookup" /\ stored = {} /\ Steps(p) => nothing_issued
              /\ apc[p] = "lookup" /\ stored # {} /\ Steps(p)
                    => apc'[p] = "redeem" /\ aloc'[p].row \in stored
              /\ apc[p] = "redeem" /\ aloc[p].row.expires_at < today /\ Steps(p)
                    => nothing_issued ]_vars

\* An expired token was presented and refused, its row removed.
C22_Witness ==
    /\ apc[1] = "done"
    /\ areq[1].op = "refresh"
    /\ resp[1].status = 401
    /\ aloc[1].row # NoTokenRow
    /\ aloc[1].row.expires_at < today
    /\ aloc[1].row \notin refresh_tokens

\* The user_auth rows of the email of request p whose password the request
\* presents.
Matching(p) ==
    {i \in 1..Len(user_auth) :
        /\ user_auth[i].email = areq[p].email
        /\ user_auth[i].password = get_password_hash(areq[p].password)}

\* C23: a login whose email is not registered, or whose password is not the
\* registered one, is answered 401 with no token, and the users, user_auth
\* and refresh_tokens tables stay as they were.
C23_FailedLoginChangesNothing ==
    [][ \A p \in SeqProcs :
          apc[p] = "login" /\ Matching(p) = {} /\ Steps(p)
          => /\ apc'[p] = "done"
             /\ resp'[p].status = 401
             /\ NoTokens(resp'[p])
             /\ UNCHANGED <<users, user_auth, refresh_tokens, issued>> ]_vars

\* A login with the wrong password for the email of an active user was
\* refused.
C23_Witness ==
    /\ apc[1] = "done"
    /\ areq[1].op = "login"
    /\ resp[1].status = 401
    /\ Matching(1) = {}
    /\ \E i \in 1..Len(user_auth) :
          /\ user_auth[i].email = areq[1].email
          /\ users[user_auth[i].user_id].is_active
    /\ refresh_tokens # {}

\* C29: a signup that was refused has left no row behind: neither the users
\* row it created, nor a user_auth or refresh_tokens row for it.
C29_RejectedSignupLeavesNothing ==
    \A p \in SeqProcs :
        apc[p] = "done" /\ areq[p].op = "signup" /\ resp[p].status # 201
        => /\ aloc[p].user_id \notin 1..Len(users)
           /\ \A i \in 1..Len(user_auth) : user_auth[i].user_id # aloc[p].user_id
           /\ \A r \in refresh_tokens : r.user_id # aloc[p].user_id

\* C30: of the refresh requests that presented one token, at most one was
\* answered with new tokens.
C30_RedeemedAtMostOnce ==
    \A p, q \in Procs :
        /\ p # q
        /\ areq[p].op = "refresh"
        /\ areq[q].op = "refresh"
        /\ areq[p].refresh_token = areq[q].refresh_token
        /\ resp[p].status = 200
        => resp[q].status # 200

\* --------------------------------------------------------- saved searches
\* list_saved_searches, create_saved_search and delete_saved_search of
\* server/app/api/users.py.  Each handler is one transaction.  The caller is
\* the user the bearer token names.
MaxSaved == 3         \* saved searches created in one behaviour

UserIds == {1, 2}

notsaved == <<syncvars, rankvars, matchvars, scrapervars, parsevars, authvars>>

\* Lines 107-111: the rows of the user that are not marked deleted.
list_saved_searches(user_id) ==
    {r \in saved_search : r.user_id = user_id /\ ~ r.is_deleted}

\* GET /api/users/saved-searches
ListSavedSearches ==
    /\ \E user_id \in UserIds :
          reply' = [op |-> "list", user_id |-> user_id, search_id |-> NoRow,
                    status |-> 200,
                    items |-> {r.id : r \in list_saved_searches(user_id)}]
    /\ UNCHANGED <<saved_search, search_seq>>
    /\ UNCHANGED notsaved

\* POST /api/users/saved-searches: the row is inserted with the next id of
\* the sequence and committed.
CreateSavedSearch ==
    /\ search_seq < MaxSaved
    /\ \E user_id \in UserIds :
          LET id == search_seq + 1
          IN  /\ saved_search' = saved_search \cup
                      {[id |-> id, user_id |-> user_id, is_deleted |-> FALSE]}
              /\ search_seq' = id
              /\ reply' = [op |-> "create", user_id |-> user_id,
                           search_id |-> id, status |-> 201, items |-> {id}]
    /\ UNCHANGED notsaved

\* DeleteSavedSearch looking the row up by its id alone.
DeleteSavedSearchOfAnyUser ==
    /\ \E user_id \in UserIds, search_id \in 1..MaxSaved :
          LET item == {r \in saved_search : r.id = search_id}
          IN  /\ saved_search' = saved_search \ item
              /\ reply' = [op |-> "delete", user_id |-> user_id,
                           search_id |-> search_id,
                           status |-> IF item = {} THEN 404 ELSE 204,
                           items |-> {}]
    /\ UNCHANGED search_seq
    /\ UNCHANGED notsaved

\* DELETE /api/users/saved-searches/{search_id}: 404 unless the user has a
\* row of that id, which is then deleted (the row, not a flag) and committed.
DeleteSavedSearch ==
    /\ \E user_id \in UserIds, search_id \in 1..MaxSaved :
          LET item == {r \in saved_search :
                          r.id = search_id /\ r.user_id = user_id}
          IN  /\ saved_search' = saved_search \ item
              /\ reply' = [op |-> "delete", user_id |-> user_id,
                           search_id |-> search_id,
                           status |-> IF item = {} THEN 404 ELSE 204,
                           items |-> {}]
    /\ UNCHANGED search_seq
    /\ UNCHANGED notsaved

NextSaved ==
    \/ ListSavedSearches
    \/ CreateSavedSearch
    \/ DeleteSavedSearch

SpecSaved == Init /\ [][NextSaved]_vars

\* The ids of the saved searches user_id created that are still stored.
Owned(user_id) == {r.id : r \in {x \in saved_search : x.user_id = user_id}}

\* The same after the step.
OwnedAfter(user_id) == {r.id : r \in {x \in saved_search' : x.user_id = user_id}}

\* C24: the list returned to a user is the set of searches the user created
\* and has not deleted: a create adds a new id to the creator's searches and
\* to nobody else's, a list returns the caller's searches, a delete by the
\* owner is answered 204 and removes that search only, and any other delete
\* is answered 404 and removes nothing.
C24_ListIsOwnUndeleted ==
    [][ reply' # reply =>
          LET u == reply'.user_id
              id == reply'.search_id
              others_keep == \A v \in UserIds \ {u} : OwnedAfter(v) = Owned(v)
          IN  /\ reply'.op = "create"
                    => /\ reply'.status = 201
                       /\ \A r \in saved_search : r.id # id
                       /\ OwnedAfter(u) = Owned(u) \cup {id}
                       /\ others_keep
              /\ reply'.op = "list"
                    => /\ reply'.items = Owned(u)
                       /\ UNCHANGED saved_search
              /\ reply'.op = "delete" /\ id \in Owned(u)
                    => /\ reply'.status = 204
                       /\ OwnedAfter(u) = Owned(u) \ {id}
                       /\ others_keep
              /\ reply'.op = "delete" /\ id \notin Owned(u)
                    => /\ reply'.status = 404
                       /\ UNCHANGED saved_search ]_vars

\* A user asked to delete another user's search: 404, the search is there.
C24_Witness ==
    /\ reply.op = "delete"
    /\ reply.status = 404
    /\ \E r \in saved_search :
          r.id = reply.search_id /\ r.user_id # reply.user_id

====
